---- MODULE Spec2Model ----
(***************************************************************************)
(* A model of the fusion-and-guardrail core of the fintech AI system:      *)
(*   - AlertSystem (src/backend/alerts.py): check_for_alerts, the          *)
(*     persisted last regime, save_alert_history;                          *)
(*   - TradingSignalGenerator (src/agents/signal_generator.py);            *)
(*   - MacroRegimeDetector (src/agents/macro_detector.py): classify_regime,*)
(*     get_trading_recommendation, historical_regime;                      *)
(*   - AnalysisOrchestrator.analyze_company (src/backend/orchestrator.py): *)
(*     the report it builds and the alert check on it.                     *)
(* The alert thresholds are integers in hundredths (0.8 is 80), the inputs *)
(* of the signal generator in thousandths; Python's None is the string     *)
(* "None".                                                                 *)
(***************************************************************************)
EXTENDS Integers, Sequences, FiniteSets, TLC

VARIABLES
    previous_regime,  \* AlertSystem.previous_regime (in memory)
    regime_file,      \* content of last_regime.json
    alerts,           \* the list the last check_for_alerts returned
    call,             \* the last check_for_alerts call: its inputs and what it saw
    trace,            \* one entry per check_for_alerts call, in order
    history_file,     \* content of alert_history.json
    hist,             \* bookkeeping of the save_alert_history calls
    conc,             \* two callers interleaving on the same storage
    sig,              \* the last generate_signal call: its inputs and its result
    macro,            \* a MacroRegimeDetector and the result of its last call
    signal_history,   \* TradingSignalGenerator.signal_history
    report            \* the report the last analyze_company call built

vars == <<previous_regime, regime_file, alerts, call, trace, history_file, hist,
          conc, sig, macro, signal_history, report>>

alertVars == <<previous_regime, regime_file, alerts, call, trace>>
histVars == <<history_file, hist>>

None == "None"
Regimes == {"BULL", "BEAR", "TRANSITION"}

Abs(x) == IF x < 0 THEN -x ELSE x
Min(a, b) == IF a < b THEN a ELSE b
Max(a, b) == IF a > b THEN a ELSE b

(***************************************************************************)
(* Bounds of the model.                                                    *)
(***************************************************************************)
MaxCalls == 3
MaxRestarts == 1
MaxSaves == 2
MaxBatch == 2
MaxMacroOps == 3
MaxSignals == 2

(***************************************************************************)
(* Thresholds of check_for_alerts, in hundredths.                          *)
(***************************************************************************)
EXTREME_SCORE == 80
HIGH_CONFIDENCE == 90

(***************************************************************************)
(* Storage.  A file is absent ("NoFile"), unreadable as JSON ("Corrupt":   *)
(* open(.., 'w') truncated it and the dump did not complete), or holds its *)
(* content.  A write ends "ok", "open_fails" (the file is left as it was)  *)
(* or "dump_fails" (the file is left truncated).                           *)
(***************************************************************************)
NoFile == "NoFile"
Corrupt == "Corrupt"
WriteOutcomes == {"ok", "open_fails", "dump_fails"}
LoadOutcomes == {"ok", "read_fails"}

\* alert_history.json: [state, entries].
AbsentHistory == [state |-> "absent", entries |-> <<>>]
StoredHistory(entries) == [state |-> "ok", entries |-> entries]
CorruptHistory == [state |-> "corrupt", entries |-> <<>>]

WriteFile(old, content, wr) ==
    CASE wr = "ok" -> content
      [] wr = "open_fails" -> old
      [] OTHER -> Corrupt

\* str.lower() on the labels the model feeds in.
Lower(label) ==
    CASE label = "POSITIVE" -> "positive"
      [] label = "Negative" -> "negative"
      [] OTHER -> label

\* _load_previous_regime: the stored regime, None when there is no file or the
\* read or the parse raises.
LoadFails(file, ld) == file = Corrupt \/ (file # NoFile /\ ld # "ok")

LoadPreviousRegime(file, ld) ==
    IF file \in Regimes /\ ~LoadFails(file, ld) THEN file ELSE None

\* _save_regime: the write; every exception is caught and logged.
SaveRegime(file, regime, wr) == WriteFile(file, regime, wr)

\* Whether _save_regime raises to its caller: its except clause catches every
\* Exception and logs a warning.
SaveRegimeRaises(wr) == FALSE

Alert(type, severity, ticker, old, new) ==
    [type |-> type, severity |-> severity, ticker |-> ticker,
     old_regime |-> old, new_regime |-> new]

\* Rule 1 of check_for_alerts.
MutExtremeNonStrict(ticker, score) ==
    IF Abs(score) >= EXTREME_SCORE
    THEN <<Alert("EXTREME_SENTIMENT", "HIGH", ticker, None, None)>> ELSE <<>>
ExtremeSentiment(ticker, score) ==
    IF Abs(score) > EXTREME_SCORE
    THEN <<Alert("EXTREME_SENTIMENT", "HIGH", ticker, None, None)>> ELSE <<>>

\* Rule 2.
IsDivergence(regime, label) ==
    /\ regime # None
    /\ label # None
    /\ \/ regime = "BULL" /\ Lower(label) = "negative"
       \/ regime = "BEAR" /\ Lower(label) = "positive"

SentimentDivergence(ticker, regime, label) ==
    IF IsDivergence(regime, label)
    THEN <<Alert("SENTIMENT_DIVERGENCE", "MEDIUM", ticker, None, None)>> ELSE <<>>

\* Rule 3: compared with the in-memory previous_regime.
IsRegimeChange(regime, prev) == regime # None /\ prev # None /\ regime # prev

RegimeChange(regime, prev) ==
    IF IsRegimeChange(regime, prev)
    THEN <<Alert("REGIME_CHANGE", "CRITICAL", None, prev, regime)>> ELSE <<>>

\* Rule 4.
HighConfidence(ticker, confidence) ==
    IF confidence > HIGH_CONFIDENCE
    THEN <<Alert("HIGH_CONFIDENCE", "LOW", ticker, None, None)>> ELSE <<>>

\* Rule 5.
TradingSignalAlert(ticker, recommendation) ==
    IF recommendation \in {"FAVORABLE", "AVOID"}
    THEN <<Alert("TRADING_SIGNAL",
                 IF recommendation = "FAVORABLE" THEN "MEDIUM" ELSE "HIGH",
                 ticker, None, None)>>
    ELSE <<>>

\* The baseline branch at the end of check_for_alerts.
IsFirstRun(regime, prev) == regime # None /\ prev = None

\* previous_regime after a call: only the baseline branch assigns it.
MutBaselineNotKept(regime, prev) == prev
PreviousRegimeAfter(regime, prev) ==
    IF IsFirstRun(regime, prev) THEN regime ELSE prev

(***************************************************************************)
(* check_for_alerts(analysis_result), the whole handler.  b is the bundle  *)
(* [ticker, score, label, confidence, regime, recommendation]; wr is how   *)
(* the write of last_regime.json ends, if the call makes one.              *)
(***************************************************************************)
check_for_alerts(b, wr) ==
    LET change == IsRegimeChange(b.regime, previous_regime)
        first == IsFirstRun(b.regime, previous_regime)
        writes == change \/ first
        raised == writes /\ SaveRegimeRaises(wr)
        result == ExtremeSentiment(b.ticker, b.score)
                  \o SentimentDivergence(b.ticker, b.regime, b.label)
                  \o RegimeChange(b.regime, previous_regime)
                  \o HighConfidence(b.ticker, b.confidence)
                  \o TradingSignalAlert(b.ticker, b.recommendation)
        file2 == IF writes THEN SaveRegime(regime_file, b.regime, wr) ELSE regime_file
        entry == [regime |-> b.regime,
                  prev_before |-> previous_regime,
                  file_before |-> regime_file,
                  file_after |-> file2,
                  wrote |-> writes,
                  write_failed |-> writes /\ wr # "ok",
                  outcome |-> IF raised THEN "raised" ELSE "returned",
                  changes |-> IF raised THEN <<>>
                              ELSE RegimeChange(b.regime, previous_regime),
                  restarted |-> call.op = "init",
                  load_failed |-> call.op = "init" /\ call.load_failed]
    IN  /\ Len(trace) < MaxCalls
        /\ alerts' = IF raised THEN <<>> ELSE result
        /\ regime_file' = file2
        /\ previous_regime' = IF raised THEN previous_regime
                               ELSE PreviousRegimeAfter(b.regime, previous_regime)
        /\ call' = [op |-> "check", bundle |-> b] @@ entry
        /\ trace' = Append(trace, entry)

(***************************************************************************)
(* AlertSystem.__init__: a new AlertSystem on the same alert directory     *)
(* loads previous_regime from last_regime.json.                            *)
(***************************************************************************)
Restarts == Cardinality({i \in DOMAIN trace : trace[i].restarted})

AlertSystemInit(ld) ==
    /\ call.op = "check"
    /\ Restarts <= MaxRestarts
    /\ Len(trace) < MaxCalls
    /\ previous_regime' = LoadPreviousRegime(regime_file, ld)
    /\ call' = [op |-> "init", load_failed |-> LoadFails(regime_file, ld)]
    /\ alerts' = <<>>
    /\ UNCHANGED <<regime_file, trace>>

(***************************************************************************)
(* The inputs the specifications draw from.                                *)
(***************************************************************************)
RegimeInputs == Regimes \cup {None}
ScoreInputs == {-100, -81, -80, 0, 80, 81}
LabelInputs == {"positive", "negative", "neutral", "POSITIVE", "Negative", None}
ConfidenceInputs == {0, 90, 91}
RecommendationInputs == {"FAVORABLE", "AVOID", "CAUTION", None}

Bundle(ticker, score, label, confidence, regime, recommendation) ==
    [ticker |-> ticker, score |-> score, label |-> label,
     confidence |-> confidence, regime |-> regime,
     recommendation |-> recommendation]

\* The bundles of the regime-tracking specification: the regime varies.
RegimeBundles ==
    {Bundle("AAPL", s, "positive", 50, r, None) :
        s \in {0, 85}, r \in RegimeInputs}

\* The bundles of the rule specification: every field varies.
RuleBundles ==
    {Bundle("AAPL", s, l, c, r, rec) :
        s \in ScoreInputs, l \in LabelInputs, c \in ConfidenceInputs,
        r \in RegimeInputs, rec \in RecommendationInputs}

IdleHist == [op |-> "none"]
IdleConc == [op |-> "none"]
IdleSig == [op |-> "none"]
IdleMacro == [op |-> "none"]
IdleReport == [op |-> "none"]

InitStorage ==
    /\ regime_file \in Regimes \cup {NoFile}
    /\ \E ld \in LoadOutcomes :
          /\ previous_regime = LoadPreviousRegime(regime_file, ld)
          /\ call = [op |-> "init", load_failed |-> LoadFails(regime_file, ld)]
    /\ alerts = <<>>
    /\ trace = <<>>

InitAlerts ==
    /\ InitStorage
    /\ history_file = AbsentHistory
    /\ hist = IdleHist
    /\ conc = IdleConc
    /\ sig = IdleSig
    /\ macro = IdleMacro
    /\ signal_history = <<>>
    /\ report = IdleReport

CheckForAlerts ==
    /\ \E b \in RegimeBundles, wr \in WriteOutcomes : check_for_alerts(b, wr)
    /\ UNCHANGED <<histVars, conc, sig, macro, signal_history, report>>

NewAlertSystem ==
    /\ \E ld \in LoadOutcomes : AlertSystemInit(ld)
    /\ UNCHANGED <<histVars, conc, sig, macro, signal_history, report>>

NextAlerts == CheckForAlerts \/ NewAlertSystem

SpecAlerts == InitAlerts /\ [][NextAlerts]_vars

\* One call per behaviour: the stored regime it meets is drawn by InitAlerts.
CheckRules ==
    /\ trace = <<>>
    /\ \E b \in RuleBundles : check_for_alerts(b, "ok")
    /\ UNCHANGED <<histVars, conc, sig, macro, signal_history, report>>

NextRules == CheckRules

SpecRules == InitAlerts /\ [][NextRules]_vars

(***************************************************************************)
(* save_alert_history(alerts, analysis_result).  alert_history.json is     *)
(* [state, entries]: state "absent", "ok" (entries is the stored list) or  *)
(* "corrupt" (not readable as JSON).  A history entry is identified by its *)
(* ordinal among all entries ever appended.                                *)
(***************************************************************************)
HISTORY_CAP == 1000

HistoryLoadFails(file, ld) ==
    file.state = "corrupt" \/ (file.state = "ok" /\ ld # "ok")

\* The load: [] when there is no file or when reading or parsing it raises.
LoadHistory(file, ld) ==
    IF file.state = "ok" /\ ~HistoryLoadFails(file, ld) THEN file.entries ELSE <<>>

\* history[-n:]
MutKeepFirst(s, n) == IF Len(s) <= n THEN s ELSE SubSeq(s, 1, n)
LastN(s, n) == IF Len(s) <= n THEN s ELSE SubSeq(s, Len(s) - n + 1, Len(s))

\* The k new entries, numbered after the n entries appended so far.
NewEntries(n, k) == [j \in 1..k |-> n + j]

WriteHistory(old, entries, wr) ==
    CASE wr = "ok" -> StoredHistory(entries)
      [] wr = "open_fails" -> old
      [] OTHER -> CorruptHistory

\* Whether the write's failure reaches the caller: the except clause catches
\* every Exception and logs an error.
SaveHistoryRaises(wr) == FALSE

save_alert_history(k, ld, wr) ==
    LET loaded == LoadHistory(history_file, ld)
        history == LastN(loaded \o NewEntries(hist.appended, k), HISTORY_CAP)
        lf == HistoryLoadFails(history_file, ld)
        wf == wr # "ok"
    IN  /\ hist.calls < MaxSaves
        /\ IF k = 0
           THEN /\ history_file' = history_file
                /\ hist' = [hist EXCEPT !.op = "save", !.calls = @ + 1,
                                        !.before = history_file, !.batch = 0,
                                        !.load_failed = FALSE,
                                        !.write_failed = FALSE,
                                        !.outcome = "returned"]
           ELSE /\ history_file' = WriteHistory(history_file, history, wr)
                /\ hist' = [op |-> "save",
                            calls |-> hist.calls + 1,
                            appended |-> hist.appended + k,
                            batch |-> k,
                            faults |-> hist.faults + (IF lf THEN 1 ELSE 0)
                                                   + (IF wf THEN 1 ELSE 0),
                            before |-> history_file,
                            load_failed |-> lf,
                            write_failed |-> wf,
                            outcome |-> IF wf /\ SaveHistoryRaises(wr)
                                        THEN "raised" ELSE "returned"]

\* The history files a run starts from: none, one entry, or one that earlier
\* runs filled up to the cap or just below it.
InitialLengths == {0, 1, HISTORY_CAP - 1, HISTORY_CAP}

InitHistory ==
    /\ \E n \in InitialLengths :
          /\ history_file = IF n = 0 THEN AbsentHistory
                            ELSE StoredHistory([i \in 1..n |-> i])
          /\ hist = [op |-> "none", calls |-> 0, appended |-> n, batch |-> 0,
                     faults |-> 0, before |-> AbsentHistory,
                     load_failed |-> FALSE, write_failed |-> FALSE,
                     outcome |-> "returned"]
    /\ regime_file = NoFile
    /\ previous_regime = None
    /\ alerts = <<>>
    /\ call = [op |-> "init", load_failed |-> FALSE]
    /\ trace = <<>>
    /\ conc = IdleConc
    /\ sig = IdleSig
    /\ macro = IdleMacro
    /\ signal_history = <<>>
    /\ report = IdleReport

SaveAlertHistory ==
    /\ \E k \in 0..MaxBatch, ld \in LoadOutcomes, wr \in WriteOutcomes :
          save_alert_history(k, ld, wr)
    /\ UNCHANGED <<alertVars, conc, sig, macro, signal_history, report>>

NextHistory == SaveAlertHistory

SpecHistory == InitHistory /\ [][NextHistory]_vars

(***************************************************************************)
(* Two callers on the same alert directory, each with its own AlertSystem  *)
(* (constructed before the calls) and each doing what analyze_company does:*)
(* check_for_alerts, then save_alert_history when alerts were found.  The  *)
(* code takes no lock, so the file accesses of the two callers interleave: *)
(* the write of last_regime.json, the load of alert_history.json and the   *)
(* write of alert_history.json are separate steps.  No read or write fails.*)
(***************************************************************************)
Callers == {1, 2}

\* The history entries of caller p's alerts, in order.
CallerEntries(p, found) == [j \in 1..Len(found) |-> <<p, j>>]

AlertsOf(b, prev) ==
    ExtremeSentiment(b.ticker, b.score)
    \o SentimentDivergence(b.ticker, b.regime, b.label)
    \o RegimeChange(b.regime, prev)
    \o HighConfidence(b.ticker, b.confidence)
    \o TradingSignalAlert(b.ticker, b.recommendation)

\* Step 1 of a caller: check_for_alerts on its own AlertSystem.
ConcCheck(p) ==
    LET b == conc.bundle[p]
        prev == conc.prev[p]
        writes == IsRegimeChange(b.regime, prev) \/ IsFirstRun(b.regime, prev)
    IN  /\ conc.pc[p] = "start"
        /\ regime_file' = IF writes THEN SaveRegime(regime_file, b.regime, "ok")
                          ELSE regime_file
        /\ conc' = [conc EXCEPT !.pc[p] = "checked",
                                !.found[p] = AlertsOf(b, prev),
                                !.prev[p] = PreviousRegimeAfter(b.regime, prev)]
        /\ UNCHANGED history_file

\* No alerts: analyze_company does not call save_alert_history.
ConcSkip(p) ==
    /\ conc.pc[p] = "checked"
    /\ conc.found[p] = <<>>
    /\ conc' = [conc EXCEPT !.pc[p] = "done"]
    /\ UNCHANGED <<regime_file, history_file>>

\* Step 2: save_alert_history loads the existing history.
ConcLoad(p) ==
    /\ conc.pc[p] = "checked"
    /\ conc.found[p] # <<>>
    /\ conc' = [conc EXCEPT !.pc[p] = "loaded",
                            !.local[p] = LoadHistory(history_file, "ok")]
    /\ UNCHANGED <<regime_file, history_file>>

\* Step 3: save_alert_history appends, trims and writes.
ConcWrite(p) ==
    /\ conc.pc[p] = "loaded"
    /\ history_file' =
          WriteHistory(history_file,
                       LastN(conc.local[p] \o CallerEntries(p, conc.found[p]),
                             HISTORY_CAP),
                       "ok")
    /\ conc' = [conc EXCEPT !.pc[p] = "done"]
    /\ UNCHANGED regime_file

ConcBundles ==
    {Bundle("AAPL", s, "neutral", 50, r, None) : s \in {0, 85}, r \in Regimes}

InitConc ==
    /\ regime_file \in Regimes \cup {NoFile}
    /\ history_file \in {AbsentHistory, StoredHistory(<<<<0, 1>>>>)}
    /\ \E bs \in [Callers -> ConcBundles] :
          conc = [op |-> "two callers",
                  pc |-> [p \in Callers |-> "start"],
                  bundle |-> bs,
                  prev |-> [p \in Callers |-> LoadPreviousRegime(regime_file, "ok")],
                  found |-> [p \in Callers |-> <<>>],
                  local |-> [p \in Callers |-> <<>>],
                  regime_file0 |-> regime_file,
                  history_file0 |-> history_file]
    /\ previous_regime = None
    /\ alerts = <<>>
    /\ call = [op |-> "init", load_failed |-> FALSE]
    /\ trace = <<>>
    /\ hist = IdleHist
    /\ sig = IdleSig
    /\ macro = IdleMacro
    /\ signal_history = <<>>
    /\ report = IdleReport

ConcRest == <<previous_regime, alerts, call, trace, hist, sig, macro,
             signal_history, report>>

CallerChecks == (\E p \in Callers : ConcCheck(p)) /\ UNCHANGED ConcRest
CallerSkips == (\E p \in Callers : ConcSkip(p)) /\ UNCHANGED ConcRest
CallerLoads == (\E p \in Callers : ConcLoad(p)) /\ UNCHANGED ConcRest
CallerWrites == (\E p \in Callers : ConcWrite(p)) /\ UNCHANGED ConcRest

NextConc == CallerChecks \/ CallerSkips \/ CallerLoads \/ CallerWrites

SpecConc == InitConc /\ [][NextConc]_vars

(***************************************************************************)
(* TradingSignalGenerator.  Inputs are in thousandths (a score of 0.75 is  *)
(* 750); the confidence and the risk score the code computes are exact     *)
(* rationals, kept as integers in units of 1/Q.  volatility is <<>> when   *)
(* market_data carries none, else <<v>> with v in thousandths.  The code   *)
(* computes in binary floating point; on the grids below its results are   *)
(* those of the exact arithmetic, except where a rounding falls exactly on *)
(* a tie: there the float decides, and the model allows both neighbours.   *)
(***************************************************************************)
Q == 40000

\* round(x) for x = num/den, den > 0: to the nearest integer, ties to even.
RoundHalfEven(num, den) ==
    LET fl == num \div den
        twice == 2 * (num - fl * den)
    IN  IF twice < den THEN fl
        ELSE IF twice > den THEN fl + 1
        ELSE IF fl % 2 = 0 THEN fl ELSE fl + 1

\* _calculate_alignment_score, in units of 1/2000.
AlignmentScore(score, regime) ==
    IF regime = "BULL" THEN 2 * score
    ELSE IF regime = "BEAR" THEN -2 * score
    ELSE Abs(score)

\* _calculate_divergence_risk, in units of 1/2000.
DivergenceRisk(score, regime) ==
    IF regime = "BULL" THEN (IF score < 0 THEN 2 * Abs(score) ELSE 0)
    ELSE IF regime = "BEAR" THEN (IF score > 0 THEN 2 * Abs(score) ELSE 0)
    ELSE Abs(score)

\* The regime-specific base risk, in units of 1/2000.
MutBaseRiskOne(regime) == 2000
RegimeBaseRisk(regime) ==
    IF regime = "BEAR" THEN 1400 ELSE IF regime = "TRANSITION" THEN 1000 ELSE 600

MutRiskFourFactors(score, sentConf, regime, macroConf, volatility) ==
    LET base == 2 * (1000 - sentConf) + 2 * (1000 - macroConf)
                + DivergenceRisk(score, regime) + RegimeBaseRisk(regime)
        sum == IF volatility = <<>> THEN base
               ELSE base + 2 * Min(1000, 2 * volatility[1])
    IN  Max(0, Min(Q, (sum * 20) \div 4))

\* calculate_risk_score, in units of 1/Q: the mean of the factors, clamped.
RiskScore(score, sentConf, regime, macroConf, volatility) ==
    LET base == 2 * (1000 - sentConf) + 2 * (1000 - macroConf)
                + DivergenceRisk(score, regime) + RegimeBaseRisk(regime)
        sum == IF volatility = <<>> THEN base
               ELSE base + 2 * Min(1000, 2 * volatility[1])
        n == IF volatility = <<>> THEN 4 ELSE 5
    IN  Max(0, Min(Q, (sum * 20) \div n))

MutModerateFirst(score, sentConf, regime, macroConf) ==
    LET align == AlignmentScore(score, regime)
        strong == Min(38000, 20 * (sentConf + macroConf))
        moderate == 5 * (2 * sentConf + 2 * macroConf + align + 2000)
    IN  IF regime = "BULL" /\ score > 200 /\ sentConf > 500
        THEN <<"BUY", moderate, "moderate buy">>
        ELSE IF regime = "BULL" /\ score > 500 /\ sentConf > 700 /\ align > 1000
        THEN <<"BUY", strong, "strong buy">>
        ELSE IF regime = "BEAR" /\ score < -200 /\ sentConf > 500
        THEN <<"SELL", moderate, "moderate sell">>
        ELSE IF regime = "BEAR" /\ score < -500 /\ sentConf > 700 /\ align > 1000
        THEN <<"SELL", strong, "strong sell">>
        ELSE IF regime = "BEAR" /\ score > 400 /\ sentConf > 750
        THEN <<"BUY", 28 * sentConf, "contrarian buy">>
        ELSE IF regime = "BULL" /\ score < -400 /\ sentConf > 750
        THEN <<"SELL", 28 * sentConf, "contrarian sell">>
        ELSE IF regime = "TRANSITION" /\ score > 300 /\ sentConf > 700
        THEN <<"BUY", 24 * sentConf, "cautious buy">>
        ELSE IF regime = "TRANSITION" /\ score < -300 /\ sentConf > 700
        THEN <<"SELL", 24 * sentConf, "cautious sell">>
        ELSE <<"HOLD", Max(16000, 20 * (sentConf + macroConf)), "hold">>

\* _determine_signal: <<signal, confidence in 1/Q, rule>>.
DetermineSignal(score, sentConf, regime, macroConf) ==
    LET align == AlignmentScore(score, regime)
        strong == Min(38000, 20 * (sentConf + macroConf))
        moderate == 5 * (2 * sentConf + 2 * macroConf + align + 2000)
    IN  IF regime = "BULL" /\ score > 500 /\ sentConf > 700 /\ align > 1000
        THEN <<"BUY", strong, "strong buy">>
        ELSE IF regime = "BULL" /\ score > 200 /\ sentConf > 500
        THEN <<"BUY", moderate, "moderate buy">>
        ELSE IF regime = "BEAR" /\ score < -500 /\ sentConf > 700 /\ align > 1000
        THEN <<"SELL", strong, "strong sell">>
        ELSE IF regime = "BEAR" /\ score < -200 /\ sentConf > 500
        THEN <<"SELL", moderate, "moderate sell">>
        ELSE IF regime = "BEAR" /\ score > 400 /\ sentConf > 750
        THEN <<"BUY", 28 * sentConf, "contrarian buy">>
        ELSE IF regime = "BULL" /\ score < -400 /\ sentConf > 750
        THEN <<"SELL", 28 * sentConf, "contrarian sell">>
        ELSE IF regime = "TRANSITION" /\ score > 300 /\ sentConf > 700
        THEN <<"BUY", 24 * sentConf, "cautious buy">>
        ELSE IF regime = "TRANSITION" /\ score < -300 /\ sentConf > 700
        THEN <<"SELL", 24 * sentConf, "cautious sell">>
        ELSE <<"HOLD", Max(16000, 20 * (sentConf + macroConf)), "hold">>

\* The regime multiplier of _calculate_position_size, in tenths.
MutFlatMultiplier(signal, regime) == 10
RegimeMultiplier(signal, regime) ==
    IF regime = "BULL" /\ signal = "BUY" THEN 12
    ELSE IF regime = "BEAR" /\ signal = "SELL" THEN 11
    ELSE IF regime = "TRANSITION" THEN 7
    ELSE 6

\* _calculate_position_size: confidence and risk in 1/Q.
MutRiskAdjustmentTen(signal, confidence, risk, regime) ==
    IF signal = "HOLD" THEN 0
    ELSE Max(1, Min(10,
             RoundHalfEven((10 * confidence + 10 * (Q - risk))
                               * RegimeMultiplier(signal, regime),
                           20 * Q)))
PositionSize(signal, confidence, risk, regime) ==
    IF signal = "HOLD" THEN 0
    ELSE Max(1, Min(10,
             RoundHalfEven((10 * confidence + 5 * (Q - risk))
                               * RegimeMultiplier(signal, regime),
                           20 * Q)))

MutShortCircuit(signal, confidence, regime, macroConf, risk) ==
    IF regime = "BEAR" /\ signal = "BUY" /\ (confidence < 24000 \/ macroConf > 800)
    THEN <<"bear low confidence">>
    ELSE IF risk > 32000 /\ signal # "HOLD" THEN <<"risk too high">>
    ELSE IF regime = "BULL" /\ signal = "SELL" /\ macroConf > 850
    THEN <<"contrarian to strong bull">>
    ELSE IF regime = "BEAR" /\ signal = "BUY" /\ macroConf > 850
    THEN <<"contrarian to strong bear">>
    ELSE IF confidence < 16000 /\ signal # "HOLD" THEN <<"confidence too low">>
    ELSE <<>>

\* _validate_signal: <<validated signal, notes>>.
ValidationNotes(signal, confidence, regime, macroConf, risk) ==
    (IF regime = "BEAR" /\ signal = "BUY" /\ (confidence < 24000 \/ macroConf > 800)
     THEN <<"bear low confidence">> ELSE <<>>)
    \o (IF risk > 32000 /\ signal # "HOLD" THEN <<"risk too high">> ELSE <<>>)
    \o (IF regime = "BULL" /\ signal = "SELL" /\ macroConf > 850
        THEN <<"contrarian to strong bull">> ELSE <<>>)
    \o (IF regime = "BEAR" /\ signal = "BUY" /\ macroConf > 850
        THEN <<"contrarian to strong bear">> ELSE <<>>)
    \o (IF confidence < 16000 /\ signal # "HOLD"
        THEN <<"confidence too low">> ELSE <<>>)

MutNotesOnly(signal, confidence, regime, macroConf, risk) ==
    LET notes == ValidationNotes(signal, confidence, regime, macroConf, risk)
    IN  IF notes = <<>> THEN <<signal, <<"no overrides applied">>>>
        ELSE <<signal, notes>>
ValidateSignal(signal, confidence, regime, macroConf, risk) ==
    LET notes == ValidationNotes(signal, confidence, regime, macroConf, risk)
    IN  IF notes = <<>> THEN <<signal, <<"no overrides applied">>>>
        ELSE <<"HOLD", notes>>

\* The position size generate_signal reports: computed from the signal of the
\* cascade, before validation.
ReportedPositionSize(raw, validated, confidence, risk, regime) ==
    PositionSize(raw, confidence, risk, regime)

\* round(x, 3) for x in 1/Q, in thousandths: the values the float rounding
\* can produce (one value, or both neighbours on an exact tie).
MutTruncate3(x) == {(1000 * x) \div Q}
RoundTo3(x) ==
    LET fl == (1000 * x) \div Q
        twice == 2 * (1000 * x - fl * Q)
    IN  IF twice < Q THEN {fl}
        ELSE IF twice > Q THEN {fl + 1}
        ELSE {fl, fl + 1}

\* generate_signal(sentiment_data, macro_data, market_data): the result.
\* confidence and risk_score are the values the steps compute, in 1/Q;
\* rounded_confidence and rounded_risk_score are the 'confidence' and
\* 'risk_score' of the returned dict, in thousandths.
GenerateSignalResult(in) ==
    LET risk == RiskScore(in.score, in.sentConf, in.regime, in.macroConf,
                          in.volatility)
        raw == DetermineSignal(in.score, in.sentConf, in.regime, in.macroConf)
        val == ValidateSignal(raw[1], raw[2], in.regime, in.macroConf, risk)
    IN  [op |-> "signal",
         outcome |-> "returned",
         in |-> in,
         raw_signal |-> raw[1],
         rule |-> raw[3],
         signal |-> val[1],
         confidence |-> raw[2],
         risk_score |-> risk,
         rounded_confidence |-> CHOOSE c \in RoundTo3(raw[2]) : TRUE,
         rounded_risk_score |-> CHOOSE r \in RoundTo3(risk) : TRUE,
         position_size |-> ReportedPositionSize(raw[1], val[1], raw[2], risk,
                                                in.regime),
         validation_notes |-> val[2]]

\* The whole call: the result is computed, appended to self.signal_history
\* and returned.
generate_signal(in) ==
    LET res == GenerateSignalResult(in)
    IN  \E c \in RoundTo3(res.confidence), r \in RoundTo3(res.risk_score) :
            /\ sig' = [res EXCEPT !.rounded_confidence = c,
                                  !.rounded_risk_score = r]
            /\ signal_history' = Append(signal_history, sig')

ScoreGrid == {-1000, -750, -600, -510, -500, -410, -400, -310, -300, -210,
              -200, 0, 200, 210, 300, 310, 400, 410, 500, 510, 600, 750, 1000}
ConfGrid == {0, 400, 450, 500, 510, 600, 700, 710, 750, 760, 800, 810, 850,
             860, 900, 950, 1000}
\* Sentiment confidences: the grid and two values with a third decimal.
SentConfGrid == ConfGrid \cup {751, 755}
VolatilityGrid == {<<>>, <<0>>, <<250>>, <<500>>, <<1000>>}

InitSignal ==
    /\ \E s \in ScoreGrid, sc \in SentConfGrid, mc \in ConfGrid, r \in Regimes,
          v \in VolatilityGrid :
          sig = [op |-> "input",
                 in |-> [score |-> s, sentConf |-> sc, regime |-> r,
                         macroConf |-> mc, volatility |-> v]]
    /\ signal_history = <<>>
    /\ regime_file = NoFile
    /\ previous_regime = None
    /\ alerts = <<>>
    /\ call = [op |-> "init", load_failed |-> FALSE]
    /\ trace = <<>>
    /\ history_file = AbsentHistory
    /\ hist = IdleHist
    /\ conc = IdleConc
    /\ macro = IdleMacro
    /\ report = IdleReport

GenerateSignal ==
    /\ sig.op = "input"
    /\ generate_signal(sig.in)
    /\ UNCHANGED <<alertVars, histVars, conc, macro, report>>

NextSignal == GenerateSignal

SpecSignal == InitSignal /\ [][NextSignal]_vars

(***************************************************************************)
(* generate_signal on inputs outside the declared ranges: a score outside  *)
(* [-1,1], a confidence outside [0,1], a regime that is none of the three. *)
(***************************************************************************)
RegimeInputsAny == Regimes \cup {"SIDEWAYS"}
ScoreInputsAny == {-1500, -1000, -600, 0, 600, 1000, 1500}
ConfInputsAny == {-200, 0, 800, 900, 1000, 1200}
VolatilityInputsAny == {<<>>, <<250>>}

ValidScore(score) == score >= -1000 /\ score <= 1000
ValidConfidence(conf) == conf >= 0 /\ conf <= 1000
ValidInput(in) ==
    /\ ValidScore(in.score)
    /\ ValidConfidence(in.sentConf)
    /\ ValidConfidence(in.macroConf)
    /\ in.regime \in Regimes

InitAnyInput ==
    /\ \E s \in ScoreInputsAny, sc \in ConfInputsAny, mc \in ConfInputsAny,
          r \in RegimeInputsAny, v \in VolatilityInputsAny :
          sig = [op |-> "input",
                 in |-> [score |-> s, sentConf |-> sc, regime |-> r,
                         macroConf |-> mc, volatility |-> v]]
    /\ signal_history = <<>>
    /\ regime_file = NoFile
    /\ previous_regime = None
    /\ alerts = <<>>
    /\ call = [op |-> "init", load_failed |-> FALSE]
    /\ trace = <<>>
    /\ history_file = AbsentHistory
    /\ hist = IdleHist
    /\ conc = IdleConc
    /\ macro = IdleMacro
    /\ report = IdleReport

GenerateSignalAnyInput ==
    /\ sig.op = "input"
    /\ generate_signal(sig.in)
    /\ UNCHANGED <<alertVars, histVars, conc, macro, report>>

NextAnyInput == GenerateSignalAnyInput

SpecAnyInput == InitAnyInput /\ [][NextAnyInput]_vars

(***************************************************************************)
(* One TradingSignalGenerator over several calls: generate_signal,         *)
(* get_signal_history and reset on the same signal_history.                *)
(***************************************************************************)
\* self.signal_history[-limit:]; a limit of 0 slices from index 0.
LastEntries(history, limit) ==
    IF limit = 0 \/ limit >= Len(history) THEN history
    ELSE SubSeq(history, Len(history) - limit + 1, Len(history))

get_signal_history(limit) ==
    /\ sig' = [op |-> "get_signal_history", limit |-> limit,
               ret |-> LastEntries(signal_history, limit)]
    /\ UNCHANGED signal_history

reset ==
    /\ sig' = [op |-> "reset"]
    /\ signal_history' = <<>>

HistoryLimits == {1, 10}

GeneratorInputs ==
    {[score |-> s, sentConf |-> 800, regime |-> r, macroConf |-> 800,
      volatility |-> <<>>] : s \in {-600, 0, 600}, r \in {"BULL", "BEAR"}}

InitGenerator ==
    /\ sig = IdleSig
    /\ signal_history = <<>>
    /\ regime_file = NoFile
    /\ previous_regime = None
    /\ alerts = <<>>
    /\ call = [op |-> "init", load_failed |-> FALSE]
    /\ trace = <<>>
    /\ history_file = AbsentHistory
    /\ hist = IdleHist
    /\ conc = IdleConc
    /\ macro = IdleMacro
    /\ report = IdleReport

GeneratorRest == <<alertVars, histVars, conc, macro, report>>

GenerateSignalCall ==
    /\ Len(signal_history) < MaxSignals
    /\ \E in \in GeneratorInputs : generate_signal(in)
    /\ UNCHANGED GeneratorRest

GetSignalHistory ==
    /\ \E limit \in HistoryLimits : get_signal_history(limit)
    /\ UNCHANGED GeneratorRest

Reset == reset /\ UNCHANGED GeneratorRest

NextGenerator == GenerateSignalCall \/ GetSignalHistory \/ Reset

SpecGenerator == InitGenerator /\ [][NextGenerator]_vars

(***************************************************************************)
(* MacroRegimeDetector (src/agents/macro_detector.py).  Indicator values   *)
(* are in tenths (a VIX of 19.9 is 199, an unemployment rate of 4.5 is 45).*)
(* An entry of the indicator dict is [kind, v]: kind "value" with the      *)
(* number v, "none" (the key is there, the value is None) or "absent" (no  *)
(* such key).  The dict itself is never empty: it carries other keys too.  *)
(* Python's None for current_indicators and current_regime is <<>>, a set  *)
(* value x is <<x>>.  Ratios and confidences of a classification are       *)
(* reported rounded to three decimals: they are integers in thousandths.   *)
(***************************************************************************)
VIX_MODERATE == 200
VIX_ELEVATED == 250
UNEMPLOYMENT_NORMAL == 45
UNEMPLOYMENT_ELEVATED == 50
INFLATION_TARGET == 35
INFLATION_ELEVATED == 40
FED_RATE_NEUTRAL == 40
FED_RATE_RESTRICTIVE == 50
GDP_STRONG == 25
GDP_WEAK == 10

Value(v) == [kind |-> "value", v |-> v]
NoneValue == [kind |-> "none", v |-> 0]
AbsentKey == [kind |-> "absent", v |-> 0]

IndicatorNames == <<"VIX", "unemployment_rate", "inflation_rate",
                    "fed_funds_rate", "gdp_growth">>

\* indicators["VIX"] and the like raise KeyError on an absent key;
\* indicators.get("gdp_growth", 0) gives 0 instead.
RequiredNames == {"VIX", "unemployment_rate", "inflation_rate", "fed_funds_rate"}

GdpGrowthRead(ind) ==
    IF ind.gdp_growth.kind = "absent" THEN Value(0) ELSE ind.gdp_growth

\* classify_regime raises: KeyError on an absent required key, TypeError when
\* a value read is None and is compared with a number.
ClassifyRaises(ind) ==
    \/ \E n \in RequiredNames : ind[n].kind = "absent"
    \/ \E n \in RequiredNames : ind[n].kind = "none"
    \/ GdpGrowthRead(ind).kind = "none"

\* The vote of one indicator: <<bullish, bearish, reasoning line>>.
VixVote(vix) ==
    IF vix < VIX_MODERATE THEN <<2, 0, "Low volatility">>
    ELSE IF vix > VIX_ELEVATED THEN <<0, 2, "Elevated volatility">>
    ELSE <<0, 0, "Moderate volatility">>

MutUnemploymentNeutral(unemployment) ==
    IF unemployment < UNEMPLOYMENT_NORMAL THEN <<2, 0, "Strong labor market">>
    ELSE IF unemployment > UNEMPLOYMENT_ELEVATED THEN <<0, 2, "Weak labor market">>
    ELSE <<0, 0, "Healthy labor market">>

UnemploymentVote(unemployment) ==
    IF unemployment < UNEMPLOYMENT_NORMAL THEN <<2, 0, "Strong labor market">>
    ELSE IF unemployment > UNEMPLOYMENT_ELEVATED THEN <<0, 2, "Weak labor market">>
    ELSE <<1, 0, "Healthy labor market">>

MutInflationStrict(inflation) ==
    IF inflation < INFLATION_TARGET THEN <<2, 0, "Inflation near target">>
    ELSE IF inflation > INFLATION_ELEVATED THEN <<0, 2, "High inflation pressures">>
    ELSE <<0, 1, "Elevated but manageable inflation">>

InflationVote(inflation) ==
    IF inflation <= INFLATION_TARGET THEN <<2, 0, "Inflation near target">>
    ELSE IF inflation > INFLATION_ELEVATED THEN <<0, 2, "High inflation pressures">>
    ELSE <<0, 1, "Elevated but manageable inflation">>

FedRateVote(fed_rate) ==
    IF fed_rate < FED_RATE_NEUTRAL THEN <<1, 0, "Accommodative Fed policy">>
    ELSE IF fed_rate > FED_RATE_RESTRICTIVE THEN <<0, 1, "Restrictive Fed policy">>
    ELSE <<0, 0, "Neutral Fed policy">>

GdpVote(gdp_growth) ==
    IF gdp_growth > GDP_STRONG THEN <<1, 0, "Strong economic growth">>
    ELSE IF gdp_growth < GDP_WEAK THEN <<0, 1, "Weak economic growth">>
    ELSE <<0, 0, "Moderate economic growth">>

\* The five votes, in the order the code casts them.
Votes(ind) ==
    <<VixVote(ind.VIX.v),
      UnemploymentVote(ind.unemployment_rate.v),
      InflationVote(ind.inflation_rate.v),
      FedRateVote(ind.fed_funds_rate.v),
      GdpVote(GdpGrowthRead(ind).v)>>

\* bullish_signals / total_signals if total_signals > 0 else 0, as <<num, den>>.
BullishRatio(bullish, bearish) ==
    IF bullish + bearish > 0 THEN <<bullish, bullish + bearish>> ELSE <<0, 1>>

\* The regime of a ratio num/den: >= 0.65 BULL, <= 0.35 BEAR, else TRANSITION.
RegimeOfRatio(ratio) ==
    IF 100 * ratio[1] >= 65 * ratio[2] THEN "BULL"
    ELSE IF 100 * ratio[1] <= 35 * ratio[2] THEN "BEAR"
    ELSE "TRANSITION"

\* The confidence before rounding, as <<num, den>>.
MutConfidenceIsRatio(ratio) == ratio
RawConfidence(ratio) ==
    LET num == ratio[1]
        den == ratio[2]
    IN  IF RegimeOfRatio(ratio) = "BULL" THEN <<num, den>>
        ELSE IF RegimeOfRatio(ratio) = "BEAR" THEN <<den - num, den>>
        ELSE <<den - Abs(den - 2 * num), den>>

MutNoRounding(x) == (1000 * x[1]) \div x[2]

\* round(x, 3) of x = <<num, den>>, in thousandths.
Round3(x) == RoundHalfEven(1000 * x[1], x[2])

\* The dict classify_regime returns for the indicators ind at time now.
ClassifyResult(ind, now) ==
    LET votes == Votes(ind)
        bullish == votes[1][1] + votes[2][1] + votes[3][1] + votes[4][1] + votes[5][1]
        bearish == votes[1][2] + votes[2][2] + votes[3][2] + votes[4][2] + votes[5][2]
        ratio == BullishRatio(bullish, bearish)
    IN  [regime |-> RegimeOfRatio(ratio),
         confidence |-> Round3(RawConfidence(ratio)),
         reasoning |-> [i \in 1..5 |-> votes[i][3]],
         bullish |-> bullish,
         bearish |-> bearish,
         bullish_ratio |-> Round3(ratio),
         indicators |-> ind,
         timestamp |-> now]

MutThresholdInclusive(regime, confidence) ==
    IF regime = "BULL"
    THEN (IF confidence >= 750 THEN <<"FAVORABLE", "MODERATE">>
          ELSE <<"FAVORABLE", "MODERATE-LOW">>)
    ELSE IF regime = "BEAR"
    THEN (IF confidence >= 750 THEN <<"AVOID", "HIGH">>
          ELSE <<"CAUTION", "MODERATE-HIGH">>)
    ELSE <<"CAUTION", "MODERATE">>

\* get_trading_recommendation's table: <<recommendation, risk_level>> for a
\* regime and its confidence in thousandths.
Recommendation(regime, confidence) ==
    IF regime = "BULL"
    THEN (IF confidence > 750 THEN <<"FAVORABLE", "MODERATE">>
          ELSE <<"FAVORABLE", "MODERATE-LOW">>)
    ELSE IF regime = "BEAR"
    THEN (IF confidence > 750 THEN <<"AVOID", "HIGH">>
          ELSE <<"CAUTION", "MODERATE-HIGH">>)
    ELSE <<"CAUTION", "MODERATE">>

\* The detector after self.classify_regime(): m is the detector before,
\* fetched what fetch_macro_indicators yields when no indicators are set, dt
\* the time that passes until the call reads the clock.
ClassifyStep(m, fetched, dt) ==
    LET ind == IF Len(m.current_indicators) = 0 THEN fetched
               ELSE m.current_indicators[1]
        res == ClassifyResult(ind, m.now + dt)
    IN  IF ClassifyRaises(ind)
        THEN [m EXCEPT !.current_indicators = <<ind>>,
                       !.outcome = "raised",
                       !.ret = <<>>,
                       !.now = m.now + dt]
        ELSE [m EXCEPT !.current_indicators = <<ind>>,
                       !.current_regime = <<res>>,
                       !.outcome = "returned",
                       !.ret = <<res>>,
                       !.now = m.now + dt,
                       !.classified = Append(m.classified, res)]

classify_regime(fetched, dt) ==
    macro' = [ClassifyStep(macro, fetched, dt) EXCEPT
                 !.op = "classify_regime", !.ops = macro.ops + 1]

\* get_trading_recommendation: classifies first when no regime is stored, then
\* maps the stored regime.
get_trading_recommendation(fetched, dt) ==
    LET m == IF Len(macro.current_regime) = 0
             THEN ClassifyStep(macro, fetched, dt)
             ELSE [macro EXCEPT !.now = macro.now + dt]
    IN  IF Len(m.current_regime) = 0
        THEN macro' = [m EXCEPT !.op = "get_trading_recommendation",
                                !.outcome = "raised",
                                !.ret = <<>>,
                                !.ops = macro.ops + 1]
        ELSE LET regime_data == m.current_regime[1]
                 rec == Recommendation(regime_data.regime, regime_data.confidence)
             IN  macro' = [m EXCEPT
                    !.op = "get_trading_recommendation",
                    !.outcome = "returned",
                    !.ret = <<[recommendation |-> rec[1],
                               risk_level |-> rec[2],
                               regime |-> regime_data.regime,
                               confidence |-> regime_data.confidence,
                               timestamp |-> m.now]>>,
                    !.ops = macro.ops + 1]

\* detector.current_indicators = ind
set_current_indicators(ind) ==
    macro' = [macro EXCEPT !.op = "set_current_indicators",
                           !.current_indicators = <<ind>>,
                           !.outcome = "returned",
                           !.ret = <<>>,
                           !.ops = macro.ops + 1]

\* MacroRegimeDetector.__init__, with the indicators given (<<>> for None).
NewDetector(indicators) ==
    [op |-> "new", outcome |-> "returned", current_indicators |-> indicators,
     current_regime |-> <<>>, ret |-> <<>>, now |-> 0, ops |-> 0,
     classified |-> <<>>]

MacroRest == <<alertVars, histVars, conc, sig, signal_history, report>>

InitMacroRest ==
    /\ regime_file = NoFile
    /\ previous_regime = None
    /\ alerts = <<>>
    /\ call = [op |-> "init", load_failed |-> FALSE]
    /\ trace = <<>>
    /\ history_file = AbsentHistory
    /\ hist = IdleHist
    /\ conc = IdleConc
    /\ sig = IdleSig
    /\ signal_history = <<>>
    /\ report = IdleReport

\* How much time passes before a call reads datetime.now(): none, or some.
ClockSteps == {0, 1}

(***************************************************************************)
(* classify_regime and get_trading_recommendation as functions of the      *)
(* indicators: the indicators are drawn from a grid around the thresholds, *)
(* each entry possibly None or absent.                                     *)
(***************************************************************************)
Missing == {NoneValue, AbsentKey}
VixGrid == {Value(v) : v \in {199, 200, 250, 251}} \cup Missing
UnemploymentGrid == {Value(v) : v \in {44, 45, 50, 51}} \cup Missing
InflationGrid == {Value(v) : v \in {35, 36, 40, 41}} \cup Missing
FedRateGrid == {Value(v) : v \in {39, 40, 50, 51}} \cup Missing
GdpGrid == {Value(v) : v \in {-10, 9, 10, 25, 26}} \cup Missing

Indicators(vix, unemployment, inflation, fed_rate, gdp) ==
    [VIX |-> vix, unemployment_rate |-> unemployment,
     inflation_rate |-> inflation, fed_funds_rate |-> fed_rate,
     gdp_growth |-> gdp]

IndicatorGrid ==
    {Indicators(x, u, i, f, g) :
        x \in VixGrid, u \in UnemploymentGrid, i \in InflationGrid,
        f \in FedRateGrid, g \in GdpGrid}

InitClassify ==
    /\ \E ind \in IndicatorGrid : macro = NewDetector(<<ind>>)
    /\ InitMacroRest

ClassifyOnce ==
    /\ macro.op = "new"
    /\ \E dt \in ClockSteps : classify_regime(macro.current_indicators[1], dt)
    /\ UNCHANGED MacroRest

RecommendOnce ==
    /\ macro.op \in {"new", "classify_regime"}
    /\ \E dt \in ClockSteps :
          get_trading_recommendation(macro.current_indicators[1], dt)
    /\ UNCHANGED MacroRest

\* historical_regime(date).  fetch is how the fetch of the historical data
\* ends: "no_fred" (no FRED client: RuntimeError before anything is touched),
\* "fails" (an exception inside the try block before the indicators are
\* swapped) or "ok" with the historical indicators hind.  With "ok" the
\* detector's indicators are replaced by hind, classify_regime runs on them
\* and stores its result in current_regime, and the original indicators are
\* put back; when classify_regime raises, the except clause re-raises as
\* RuntimeError and the indicators are not put back.
historical_regime(fetch, hind, dt) ==
    LET swapped == [macro EXCEPT !.current_indicators = <<hind>>]
        after == ClassifyStep(swapped, hind, dt)
    IN  IF fetch # "ok"
        THEN macro' = [macro EXCEPT !.op = "historical_regime",
                                    !.outcome = "raised",
                                    !.ret = <<>>,
                                    !.ops = macro.ops + 1]
        ELSE IF ClassifyRaises(hind)
        THEN macro' = [after EXCEPT !.op = "historical_regime",
                                    !.ops = macro.ops + 1]
        ELSE macro' = [after EXCEPT
                          !.op = "historical_regime",
                          !.current_indicators = macro.current_indicators,
                          !.ops = macro.ops + 1]

NextClassify == ClassifyOnce \/ RecommendOnce

SpecClassify == InitClassify /\ [][NextClassify]_vars

(***************************************************************************)
(* One MacroRegimeDetector over a sequence of calls.                       *)
(***************************************************************************)
AllBullish == Indicators(Value(150), Value(35), Value(20), Value(25), Value(30))
AllBearish == Indicators(Value(350), Value(65), Value(55), Value(60), Value(-10))
MostlyBullish == Indicators(Value(300), Value(35), Value(20), Value(25), Value(30))
MostlyBearish == Indicators(Value(150), Value(65), Value(55), Value(60), Value(-10))
NoThreshold == Indicators(Value(220), Value(47), Value(38), Value(45), Value(20))
UnemploymentNone == Indicators(Value(200), NoneValue, Value(30), Value(45), Value(20))

\* What fetch_macro_indicators can yield: every indicator has a value.
FetchedSets == {AllBullish, AllBearish, MostlyBullish, MostlyBearish, NoThreshold}
Snapshots == FetchedSets \cup {UnemploymentNone}

Fetchable == IF Len(macro.current_indicators) = 0 THEN FetchedSets
             ELSE {macro.current_indicators[1]}

InitDetector ==
    /\ macro = NewDetector(<<>>)
    /\ InitMacroRest

SetIndicators ==
    /\ macro.ops < MaxMacroOps
    /\ \E ind \in Snapshots : set_current_indicators(ind)
    /\ UNCHANGED MacroRest

ClassifyRegime ==
    /\ macro.ops < MaxMacroOps
    /\ \E fetched \in Fetchable, dt \in ClockSteps : classify_regime(fetched, dt)
    /\ UNCHANGED MacroRest

GetTradingRecommendation ==
    /\ macro.ops < MaxMacroOps
    /\ \E fetched \in Fetchable, dt \in ClockSteps :
          get_trading_recommendation(fetched, dt)
    /\ UNCHANGED MacroRest

\* What historical_regime builds from the historical series: no gdp_growth
\* key, and None where a series is empty.
HistoricalBearish == Indicators(Value(350), Value(65), Value(55), Value(60), AbsentKey)
HistoricalBullish == Indicators(Value(150), Value(35), Value(20), Value(25), AbsentKey)
HistoricalNoVix == Indicators(NoneValue, Value(35), Value(20), Value(25), AbsentKey)
HistoricalSets == {HistoricalBearish, HistoricalBullish, HistoricalNoVix}
HistoricalFetches == {"no_fred", "fails", "ok"}

HistoricalRegime ==
    /\ macro.ops < MaxMacroOps
    /\ \E fetch \in HistoricalFetches, hind \in HistoricalSets, dt \in ClockSteps :
          historical_regime(fetch, hind, dt)
    /\ UNCHANGED MacroRest

NextDetector ==
    SetIndicators \/ ClassifyRegime \/ GetTradingRecommendation \/ HistoricalRegime

SpecDetector == InitDetector /\ [][NextDetector]_vars

(***************************************************************************)
(* AnalysisOrchestrator.analyze_company: the report _generate_report       *)
(* builds, the alert check on it, the save of the alerts found.  A dict is *)
(* a record; scores and confidences are in hundredths, the confidence of   *)
(* the regime in thousandths.                                              *)
(***************************************************************************)
EmptyDict == [k \in {} |-> None]

\* d.get(key, default)
Get(d, key, default) == IF key \in DOMAIN d THEN d[key] ELSE default

\* _generate_report: the sections the alert check could read.
GenerateReport(ticker, sentiment_result, macro_regime, trading_recommendation) ==
    [success |-> TRUE,
     ticker |-> ticker,
     sentiment_analysis |->
         [overall_label |-> sentiment_result.overall_label,
          sentiment_score |-> sentiment_result.sentiment_score,
          confidence |-> sentiment_result.overall_confidence],
     macro_regime |->
         [regime |-> macro_regime.regime,
          confidence |-> macro_regime.confidence],
     recommendation |->
         [action |-> trading_recommendation[1],
          risk_level |-> trading_recommendation[2]]]

\* What check_for_alerts reads from the analysis_result it is given.
AlertInputs(analysis_result) ==
    LET sentiment == Get(analysis_result, "sentiment", EmptyDict)
        macro_section == Get(analysis_result, "macro", EmptyDict)
    IN  Bundle(Get(analysis_result, "ticker", "UNKNOWN"),
               Get(sentiment, "sentiment_score", 0),
               Get(sentiment, "sentiment_label", None),
               Get(sentiment, "confidence", 0),
               Get(macro_section, "regime", None),
               Get(macro_section, "recommendation", None))

\* analyze_company(ticker) when the transcript is found: sentiment_result is
\* get_overall_sentiment(), macro_regime is classify_regime(); the
\* recommendation is get_trading_recommendation() for that regime.
analyze_company(ticker, sentiment_result, macro_regime, wr, ld, hwr) ==
    LET rep == GenerateReport(ticker, sentiment_result, macro_regime,
                   Recommendation(macro_regime.regime, macro_regime.confidence))
    IN  /\ check_for_alerts(AlertInputs(rep), wr)
        /\ IF alerts' # <<>>
           THEN save_alert_history(Len(alerts'), ld, hwr)
           ELSE UNCHANGED histVars
        /\ report' = [op |-> "analyze_company", report |-> rep,
                      alerts |-> alerts',
                      prev_before |-> previous_regime]

\* analyze_company(ticker) when get_earnings_transcript finds nothing.
analyze_company_no_transcript(ticker) ==
    /\ Len(trace) < MaxCalls
    /\ report.op # "no_transcript"
    /\ report' = [op |-> "no_transcript",
                  report |-> [success |-> FALSE, ticker |-> ticker]]
    /\ UNCHANGED <<alertVars, histVars>>

SentimentResults ==
    {[overall_label |-> l, sentiment_score |-> s, overall_confidence |-> c] :
        l \in {"positive", "negative", "neutral"}, s \in {-85, 0, 85},
        c \in {50, 95}}

MacroRegimes ==
    {[regime |-> r, confidence |-> c] : r \in Regimes, c \in {700, 800}}

InitPipeline ==
    /\ regime_file = NoFile
    /\ previous_regime = None
    /\ alerts = <<>>
    /\ call = [op |-> "init", load_failed |-> FALSE]
    /\ trace = <<>>
    /\ history_file = AbsentHistory
    /\ hist = [op |-> "none", calls |-> 0, appended |-> 0, batch |-> 0,
               faults |-> 0, before |-> AbsentHistory,
               load_failed |-> FALSE, write_failed |-> FALSE,
               outcome |-> "returned"]
    /\ conc = IdleConc
    /\ sig = IdleSig
    /\ macro = IdleMacro
    /\ signal_history = <<>>
    /\ report = IdleReport

PipelineRest == <<conc, sig, macro, signal_history>>

AnalyzeCompany ==
    /\ \E s \in SentimentResults, m \in MacroRegimes, wr \in WriteOutcomes,
          ld \in LoadOutcomes, hwr \in WriteOutcomes :
          analyze_company("AAPL", s, m, wr, ld, hwr)
    /\ UNCHANGED PipelineRest

AnalyzeCompanyNoTranscript ==
    /\ analyze_company_no_transcript("AAPL")
    /\ UNCHANGED PipelineRest

NextPipeline == AnalyzeCompany \/ AnalyzeCompanyNoTranscript

SpecPipeline == InitPipeline /\ [][NextPipeline]_vars

(***************************************************************************)
(* Properties of check_for_alerts and of the persisted regime.             *)
(***************************************************************************)
Calls == DOMAIN trace

\* A run of one AlertSystem, constructed when no regime was stored, in which
\* every call carries a regime and every write succeeds.
FreshSingleRun ==
    /\ trace # <<>>
    /\ trace[1].file_before = NoFile
    /\ trace[1].prev_before = None
    /\ \A i \in Calls :
          /\ trace[i].regime # None
          /\ ~trace[i].write_failed
          /\ i > 1 => ~trace[i].restarted

\* A run without a failed read or write of last_regime.json.
NoRegimeFault ==
    \A i \in Calls : ~trace[i].write_failed /\ ~trace[i].load_failed

OneCriticalChange(i, old, new) ==
    trace[i].changes = <<[type |-> "REGIME_CHANGE", severity |-> "CRITICAL",
                          ticker |-> None, old_regime |-> old, new_regime |-> new]>>

\* C1: from no stored regime, on one AlertSystem: call 1 emits no REGIME_CHANGE
\* and persists its regime; call 2 with a different regime emits exactly one
\* CRITICAL REGIME_CHANGE and updates the stored regime; call 3 with the regime
\* of call 2 emits no REGIME_CHANGE.
C1_ThreeCallSequence ==
    FreshSingleRun =>
        /\ trace[1].changes = <<>>
        /\ trace[1].file_after = trace[1].regime
        /\ (Len(trace) >= 2 /\ trace[2].regime # trace[1].regime) =>
              /\ OneCriticalChange(2, trace[1].regime, trace[2].regime)
              /\ trace[2].file_after = trace[2].regime
        /\ (Len(trace) >= 3 /\ trace[2].regime # trace[1].regime
              /\ trace[3].regime = trace[2].regime) =>
              trace[3].changes = <<>>

\* C3: every call made while a regime is stored, with a regime that differs from
\* the stored one, emits exactly one REGIME_CHANGE (CRITICAL, ticker null) from
\* the stored regime to the call's regime.
C3_EveryChangeDetected ==
    NoRegimeFault =>
        \A i \in Calls :
            (/\ trace[i].file_before \in Regimes
             /\ trace[i].regime # None
             /\ trace[i].regime # trace[i].file_before) =>
                OneCriticalChange(i, trace[i].file_before, trace[i].regime)

\* C4: after every call that carries a regime, writes succeeding, the persisted
\* regime is the call's regime.
C4_PersistedRegimeIsLatest ==
    NoRegimeFault =>
        \A i \in Calls :
            trace[i].regime # None => trace[i].file_after = trace[i].regime

\* C5: a call with a regime made while no prior regime is known emits no
\* REGIME_CHANGE, persists the regime as the baseline (when the write succeeds),
\* and the next call compares against it.
C5_FirstRunBaseline ==
    \A i \in Calls :
        (trace[i].prev_before = None /\ trace[i].regime # None) =>
            /\ trace[i].changes = <<>>
            /\ trace[i].wrote
            /\ ~trace[i].write_failed => trace[i].file_after = trace[i].regime
            /\ (i = Len(trace) /\ call.op = "check") =>
                  previous_regime = trace[i].regime
            /\ (i < Len(trace) /\ ~trace[i + 1].restarted) =>
                  trace[i + 1].prev_before = trace[i].regime
            /\ (i < Len(trace) /\ trace[i + 1].restarted
                  /\ ~trace[i].write_failed /\ ~trace[i + 1].load_failed) =>
                  trace[i + 1].prev_before = trace[i].regime

\* A first-run call whose baseline the next call was compared against.
C5_Witness ==
    /\ Len(trace) >= 2
    /\ trace[1].prev_before = None
    /\ trace[1].regime = "BULL"
    /\ trace[1].file_after = "BULL"
    /\ trace[2].regime = "BEAR"
    /\ OneCriticalChange(2, "BULL", "BEAR")

OfType(t) == {i \in DOMAIN alerts : alerts[i].type = t}
NegativeLabels == {"negative", "Negative"}
PositiveLabels == {"positive", "POSITIVE"}

Emits(t, severity, fires) ==
    /\ Cardinality(OfType(t)) = IF fires THEN 1 ELSE 0
    /\ \A i \in OfType(t) : alerts[i].severity = severity

\* C6: each of the four stateless rules emits exactly one alert of its type and
\* severity iff its own condition holds, with strict thresholds, whatever the
\* other rules do and whatever regime is stored.
C6_RulesIndependent ==
    call.op = "check" =>
        LET b == call.bundle IN
        /\ Emits("EXTREME_SENTIMENT", "HIGH", b.score > 80 \/ b.score < -80)
        /\ Emits("SENTIMENT_DIVERGENCE", "MEDIUM",
                 \/ b.regime = "BULL" /\ b.label \in NegativeLabels
                 \/ b.regime = "BEAR" /\ b.label \in PositiveLabels)
        /\ Emits("HIGH_CONFIDENCE", "LOW", b.confidence > 90)
        /\ Emits("TRADING_SIGNAL",
                 IF b.recommendation = "FAVORABLE" THEN "MEDIUM" ELSE "HIGH",
                 b.recommendation \in {"FAVORABLE", "AVOID"})

\* A call on which all four stateless rules fire next to a regime change.
C6_Witness ==
    /\ call.op = "check"
    /\ call.bundle.score = 81
    /\ call.bundle.confidence = 91
    /\ call.bundle.regime = "BEAR"
    /\ call.bundle.label = "POSITIVE"
    /\ call.bundle.recommendation = "AVOID"
    /\ call.prev_before = "BULL"
    /\ Len(alerts) = 5

\* C8: a call whose write of the stored regime or of the alert history fails
\* surfaces the failure to its caller instead of returning normally.
C8_FailureSurfaced ==
    /\ (call.op = "check" /\ call.write_failed) => call.outcome = "raised"
    /\ (hist.op = "save" /\ hist.write_failed) => hist.outcome = "raised"

(***************************************************************************)
(* Properties of the alert history.                                        *)
(***************************************************************************)
\* The most recent Min(cap, n) of the entries 1..n, oldest first.
MostRecent(n, cap) ==
    LET m == IF n < cap THEN n ELSE cap IN [i \in 1..m |-> n - m + i]

\* C7: the stored history never has more than 1000 entries, and as long as no
\* read or write of the file has failed it is the most recent min(1000, n) of
\* the n entries ever appended, in insertion order.
C7_HistoryBounded ==
    /\ Len(history_file.entries) <= 1000
    /\ hist.faults = 0 =>
          /\ history_file.state = IF hist.appended = 0 THEN "absent" ELSE "ok"
          /\ history_file.entries = MostRecent(hist.appended, 1000)

\* More than 1000 entries were appended and the two oldest were evicted.
C7_Witness ==
    /\ hist.faults = 0
    /\ hist.appended = 1002
    /\ Len(history_file.entries) = 1000
    /\ history_file.entries[1] = 3
    /\ history_file.entries[1000] = 1002

\* old survives in new up to the eviction of its oldest entries beyond the cap.
SurvivesIn(old, new, cap) ==
    \E d \in 0..Len(old) :
        /\ d > 0 => Len(new) = cap
        /\ Len(new) >= Len(old) - d
        /\ \A i \in 1..(Len(old) - d) : new[i] = old[d + i]

\* C10: every entry stored before a save_alert_history call is still stored
\* after it, in the same order, unless evicted as one of the oldest beyond 1000,
\* also when loading the existing file fails.
C10_AppendOnly ==
    (hist.op = "save" /\ hist.before.state = "ok" /\ ~hist.write_failed) =>
        /\ history_file.state = "ok"
        /\ SurvivesIn(hist.before.entries, history_file.entries, 1000)

(***************************************************************************)
(* Concurrent callers.                                                     *)
(***************************************************************************)
\* What caller p's whole call leaves in storage when it runs alone from
\* st = [regime_file, history_file].
AloneFrom(st, p) ==
    LET b == conc.bundle[p]
        prev0 == IF conc.regime_file0 \in Regimes THEN conc.regime_file0 ELSE None
        writes == b.regime # prev0
        found == conc.found[p]
        old == IF st.history_file.state = "ok" THEN st.history_file.entries ELSE <<>>
        all == old \o [j \in 1..Len(found) |-> <<p, j>>]
        kept == IF Len(all) <= 1000 THEN all
                ELSE [i \in 1..1000 |-> all[Len(all) - 1000 + i]]
    IN  [regime_file |-> IF writes THEN b.regime ELSE st.regime_file,
         history_file |-> IF found = <<>> THEN st.history_file
                          ELSE [state |-> "ok", entries |-> kept]]

Storage0 == [regime_file |-> conc.regime_file0, history_file |-> conc.history_file0]

\* C9: when both concurrent calls are done, the stored regime and the history
\* are those of one of the two serial orders of the calls, and the history has
\* at most 1000 entries.
C9_Serializable ==
    (\A p \in Callers : conc.pc[p] = "done") =>
        /\ Len(history_file.entries) <= 1000
        /\ [regime_file |-> regime_file, history_file |-> history_file]
              \in {AloneFrom(AloneFrom(Storage0, 1), 2),
                   AloneFrom(AloneFrom(Storage0, 2), 1)}

(***************************************************************************)
(* Properties of generate_signal.                                          *)
(***************************************************************************)
\* C2: in every result of generate_signal, a HOLD signal comes with position
\* size 0, whether the HOLD is the cascade's or the validation layer's.
C2_HoldHasNoPosition ==
    (sig.op = "signal" /\ sig.signal = "HOLD") => sig.position_size = 0

(***************************************************************************)
(* Properties of the MacroRegimeDetector.                                  *)
(***************************************************************************)
Complete(ind) == \A i \in 1..5 : ind[IndicatorNames[i]].kind = "value"

Classified == macro.op = "classify_regime" /\ macro.outcome = "returned"

Points(cond, n) == IF cond THEN n ELSE 0

ReasoningLines ==
    <<{"Low volatility", "Elevated volatility", "Moderate volatility"},
      {"Strong labor market", "Weak labor market", "Healthy labor market"},
      {"Inflation near target", "High inflation pressures",
       "Elevated but manageable inflation"},
      {"Accommodative Fed policy", "Restrictive Fed policy", "Neutral Fed policy"},
      {"Strong economic growth", "Weak economic growth", "Moderate economic growth"}>>

\* C11: on a complete indicator set the reported bullish and bearish counts are
\* the sums of the votes of the table (VIX <20 +2 bullish, >25 +2 bearish;
\* unemployment <4.5 +2 bullish, >5.0 +2 bearish, else +1 bullish; inflation
\* <=3.5 +2 bullish, >4.0 +2 bearish, else +1 bearish; fed funds <4.0 +1
\* bullish, >5.0 +1 bearish; GDP growth >2.5 +1 bullish, <1.0 +1 bearish), and
\* there is exactly one reasoning line per indicator.
C11_VoteTable ==
    (Classified /\ Complete(macro.ret[1].indicators)) =>
        LET r == macro.ret[1]
            vix == r.indicators.VIX.v
            unemployment == r.indicators.unemployment_rate.v
            inflation == r.indicators.inflation_rate.v
            fed == r.indicators.fed_funds_rate.v
            gdp == r.indicators.gdp_growth.v
        IN  /\ r.bullish = Points(vix < 200, 2)
                           + Points(unemployment < 45, 2)
                           + Points(unemployment >= 45 /\ unemployment <= 50, 1)
                           + Points(inflation <= 35, 2)
                           + Points(fed < 40, 1)
                           + Points(gdp > 25, 1)
            /\ r.bearish = Points(vix > 250, 2)
                           + Points(unemployment > 50, 2)
                           + Points(inflation > 40, 2)
                           + Points(inflation > 35 /\ inflation <= 40, 1)
                           + Points(fed > 50, 1)
                           + Points(gdp < 10, 1)
            /\ Len(r.reasoning) = 5
            /\ \A i \in 1..5 : r.reasoning[i] \in ReasoningLines[i]

\* Every indicator sits on a boundary of its table row: VIX 25 and fed funds 5.0
\* and GDP 2.5 cast no vote, unemployment 5.0 one bullish, inflation 3.5 two.
C11_Witness ==
    /\ Classified
    /\ macro.ret[1].indicators =
          Indicators(Value(250), Value(50), Value(35), Value(50), Value(25))
    /\ macro.ret[1].bullish = 3
    /\ macro.ret[1].bearish = 0

\* The bullish ratio of the reported counts, as numerator and denominator.
RatioNum(r) == IF r.bullish + r.bearish > 0 THEN r.bullish ELSE 0
RatioDen(r) == IF r.bullish + r.bearish > 0 THEN r.bullish + r.bearish ELSE 1

\* The regime the claim prescribes for the reported counts.
RegimeByRatio(r) ==
    IF 20 * RatioNum(r) >= 13 * RatioDen(r) THEN "BULL"
    ELSE IF 20 * RatioNum(r) <= 7 * RatioDen(r) THEN "BEAR"
    ELSE "TRANSITION"

\* The numerator, over RatioDen(r), of the confidence the claim prescribes:
\* ratio for BULL, 1 - ratio for BEAR, 1 - 2*|0.5 - ratio| for TRANSITION.
ConfidenceNum(r) ==
    IF RegimeByRatio(r) = "BULL" THEN RatioNum(r)
    ELSE IF RegimeByRatio(r) = "BEAR" THEN RatioDen(r) - RatioNum(r)
    ELSE RatioDen(r) - Abs(RatioDen(r) - 2 * RatioNum(r))

\* c thousandths is n/d rounded to three decimals.
IsRounded3(c, n, d) == 2 * Abs(1000 * n - c * d) <= d

\* C12 (as stated): the regime is BULL if ratio >= 0.65, BEAR if ratio <= 0.35,
\* else TRANSITION, and the returned confidence is exactly ratio, 1 - ratio or
\* 1 - 2*|0.5 - ratio|; ratio and confidence lie in [0,1].
C12_ExactConfidence ==
    Classified =>
        LET r == macro.ret[1] IN
        /\ r.regime = RegimeByRatio(r)
        /\ r.confidence * RatioDen(r) = 1000 * ConfidenceNum(r)
        /\ r.bullish_ratio * RatioDen(r) = 1000 * RatioNum(r)
        /\ r.confidence \in 0..1000
        /\ r.bullish_ratio \in 0..1000

\* C12 (amended): the same, with the returned confidence and bullish ratio being
\* those values rounded to three decimals.
C12_RoundedConfidence ==
    Classified =>
        LET r == macro.ret[1] IN
        /\ r.regime = RegimeByRatio(r)
        /\ IsRounded3(r.confidence, ConfidenceNum(r), RatioDen(r))
        /\ IsRounded3(r.bullish_ratio, RatioNum(r), RatioDen(r))
        /\ r.confidence \in 0..1000
        /\ r.bullish_ratio \in 0..1000

\* Two bullish votes against one: ratio 2/3, BULL, confidence reported as 0.667.
C12_Witness ==
    /\ Classified
    /\ macro.ret[1].bullish = 2
    /\ macro.ret[1].bearish = 1
    /\ macro.ret[1].regime = "BULL"
    /\ macro.ret[1].confidence = 667

\* A complete indicator set none of whose values hits a threshold: VIX in
\* [20,25], unemployment in [4.5,5.0], inflation in (3.5,4.0], fed funds in
\* [4.0,5.0], GDP growth in [1.0,2.5].
AllNeutral(ind) ==
    /\ Complete(ind)
    /\ ind.VIX.v >= 200 /\ ind.VIX.v <= 250
    /\ ind.unemployment_rate.v >= 45 /\ ind.unemployment_rate.v <= 50
    /\ ind.inflation_rate.v > 35 /\ ind.inflation_rate.v <= 40
    /\ ind.fed_funds_rate.v >= 40 /\ ind.fed_funds_rate.v <= 50
    /\ ind.gdp_growth.v >= 10 /\ ind.gdp_growth.v <= 25

\* C13 (as stated): an all-neutral indicator set yields 0 bullish and 0 bearish
\* signals, bullish ratio 0, regime BEAR and confidence 1.0.
C13_AllNeutralIsBear ==
    (Classified /\ AllNeutral(macro.ret[1].indicators)) =>
        /\ macro.ret[1].bullish = 0
        /\ macro.ret[1].bearish = 0
        /\ macro.ret[1].bullish_ratio = 0
        /\ macro.ret[1].regime = "BEAR"
        /\ macro.ret[1].confidence = 1000

\* C13 (amended): an all-neutral indicator set yields 1 bullish signal (the
\* unemployment rate) and 1 bearish signal (the inflation rate), bullish ratio
\* 0.5, regime TRANSITION and confidence 1.0.
C13_AllNeutralIsTransition ==
    (Classified /\ AllNeutral(macro.ret[1].indicators)) =>
        /\ macro.ret[1].bullish = 1
        /\ macro.ret[1].bearish = 1
        /\ macro.ret[1].bullish_ratio = 500
        /\ macro.ret[1].regime = "TRANSITION"
        /\ macro.ret[1].confidence = 1000
        /\ macro.ret[1].reasoning[2] = "Healthy labor market"
        /\ macro.ret[1].reasoning[3] = "Elevated but manageable inflation"

\* classify_regime has returned for an all-neutral set.
C13_Witness ==
    /\ Classified
    /\ AllNeutral(macro.ret[1].indicators)
    /\ macro.ret[1].indicators.VIX.v = 200
    /\ macro.ret[1].indicators.unemployment_rate.v = 45
    /\ macro.ret[1].regime = "TRANSITION"

Present(ind, name) == ind[name].kind = "value"

\* The votes of the table, counting only the indicators that have a value.
PresentBullish(ind) ==
    Points(Present(ind, "VIX") /\ ind.VIX.v < 200, 2)
    + Points(Present(ind, "unemployment_rate") /\ ind.unemployment_rate.v < 45, 2)
    + Points(Present(ind, "unemployment_rate") /\ ind.unemployment_rate.v >= 45
                /\ ind.unemployment_rate.v <= 50, 1)
    + Points(Present(ind, "inflation_rate") /\ ind.inflation_rate.v <= 35, 2)
    + Points(Present(ind, "fed_funds_rate") /\ ind.fed_funds_rate.v < 40, 1)
    + Points(Present(ind, "gdp_growth") /\ ind.gdp_growth.v > 25, 1)

PresentBearish(ind) ==
    Points(Present(ind, "VIX") /\ ind.VIX.v > 250, 2)
    + Points(Present(ind, "unemployment_rate") /\ ind.unemployment_rate.v > 50, 2)
    + Points(Present(ind, "inflation_rate") /\ ind.inflation_rate.v > 40, 2)
    + Points(Present(ind, "inflation_rate") /\ ind.inflation_rate.v > 35
                /\ ind.inflation_rate.v <= 40, 1)
    + Points(Present(ind, "fed_funds_rate") /\ ind.fed_funds_rate.v > 50, 1)
    + Points(Present(ind, "gdp_growth") /\ ind.gdp_growth.v < 10, 1)

\* C14: a classify_regime call on indicators of which some are missing (key
\* absent or value None) returns a regime in {BULL, BEAR, TRANSITION} instead of
\* failing, and the missing indicators add to neither tally.
C14_MissingIsAbsentSignal ==
    (macro.op = "classify_regime" /\ ~Complete(macro.current_indicators[1])) =>
        /\ macro.outcome = "returned"
        /\ Len(macro.ret) = 1
        /\ macro.ret[1].regime \in Regimes
        /\ macro.ret[1].bullish = PresentBullish(macro.current_indicators[1])
        /\ macro.ret[1].bearish = PresentBearish(macro.current_indicators[1])

\* C15: two classify_regime calls on one detector with identical indicators
\* return identical results in every field, whatever calls were made in between.
C15_Idempotent ==
    \A i \in DOMAIN macro.classified, j \in DOMAIN macro.classified :
        macro.classified[i].indicators = macro.classified[j].indicators =>
            macro.classified[i] = macro.classified[j]

Recommended == macro.op = "get_trading_recommendation" /\ macro.outcome = "returned"

C17_RecommendationVocabulary ==
    Recommended =>
        LET r == macro.ret[1] IN
        /\ r.recommendation \in {"FAVORABLE", "CAUTIOUS", "AVOID"}
        /\ r.risk_level \in {"LOW", "MODERATE", "HIGH", "VERY HIGH"}
        /\ r.recommendation = "FAVORABLE" => r.risk_level \in {"LOW", "MODERATE"}
        /\ r.recommendation = "AVOID" => r.risk_level \in {"HIGH", "VERY HIGH"}

(***************************************************************************)
(* Properties of generate_signal.  Scores and confidences of the inputs    *)
(* are in thousandths, confidences and risk scores of the result in 1/Q.   *)
(***************************************************************************)
Generated == sig.op = "signal"

\* Twice the alignment of the claim, in thousandths: score for BULL, -score for
\* BEAR, 0.5*|score| for TRANSITION.
TwiceAlignment(in) ==
    IF in.regime = "BULL" THEN 2 * in.score
    ELSE IF in.regime = "BEAR" THEN -(2 * in.score)
    ELSE Abs(in.score)

\* x thousandths in units of 1/Q.
Thousandths(x) == (Q \div 1000) * x

StrongConfidence(in) ==
    Min(Thousandths(950), Thousandths(in.sentConf + in.macroConf) \div 2)
ModerateConfidence(in) ==
    (2 * Thousandths(in.sentConf + in.macroConf + 1000)
        + Thousandths(TwiceAlignment(in))) \div 8
HoldConfidence(in) ==
    Max(Thousandths(400), Thousandths(in.sentConf + in.macroConf) \div 2)

\* The ordered cascade 1-9 of the claim: whether the rule matches, its signal,
\* its confidence.
Cascade(in) ==
    <<[matches |-> in.regime = "BULL" /\ in.score > 500 /\ in.sentConf > 700
                      /\ TwiceAlignment(in) > 1000,
       signal |-> "BUY", confidence |-> StrongConfidence(in)],
      [matches |-> in.regime = "BULL" /\ in.score > 200 /\ in.sentConf > 500,
       signal |-> "BUY", confidence |-> ModerateConfidence(in)],
      [matches |-> in.regime = "BEAR" /\ in.score < -500 /\ in.sentConf > 700
                      /\ TwiceAlignment(in) > 1000,
       signal |-> "SELL", confidence |-> StrongConfidence(in)],
      [matches |-> in.regime = "BEAR" /\ in.score < -200 /\ in.sentConf > 500,
       signal |-> "SELL", confidence |-> ModerateConfidence(in)],
      [matches |-> in.regime = "BEAR" /\ in.score > 400 /\ in.sentConf > 750,
       signal |-> "BUY", confidence |-> (Thousandths(in.sentConf) * 7) \div 10],
      [matches |-> in.regime = "BULL" /\ in.score < -400 /\ in.sentConf > 750,
       signal |-> "SELL", confidence |-> (Thousandths(in.sentConf) * 7) \div 10],
      [matches |-> in.regime = "TRANSITION" /\ in.score > 300 /\ in.sentConf > 700,
       signal |-> "BUY", confidence |-> (Thousandths(in.sentConf) * 6) \div 10],
      [matches |-> in.regime = "TRANSITION" /\ in.score < -300 /\ in.sentConf > 700,
       signal |-> "SELL", confidence |-> (Thousandths(in.sentConf) * 6) \div 10],
      [matches |-> TRUE,
       signal |-> "HOLD", confidence |-> HoldConfidence(in)]>>

FirstMatch(in) ==
    CHOOSE i \in 1..9 :
        Cascade(in)[i].matches /\ \A j \in 1..(i - 1) : ~Cascade(in)[j].matches

\* C18: the raw signal and confidence of generate_signal are those of the first
\* matching rule of the ordered cascade 1-9, with that rule's confidence formula.
C18_FirstMatchWins ==
    Generated =>
        /\ sig.raw_signal = Cascade(sig.in)[FirstMatch(sig.in)].signal
        /\ sig.confidence = Cascade(sig.in)[FirstMatch(sig.in)].confidence

\* An input that matches the Strong and the Moderate BUY rule, whose formulas
\* differ on it: (1 + 1 + 1 + 1)/4 = 1.0 against min(0.95, 1.0).
C18_Witness ==
    /\ Generated
    /\ sig.in.regime = "BULL"
    /\ sig.in.score = 1000
    /\ sig.in.sentConf = 1000
    /\ sig.in.macroConf = 1000
    /\ Cascade(sig.in)[1].matches
    /\ Cascade(sig.in)[2].matches
    /\ sig.raw_signal = "BUY"
    /\ sig.confidence = Thousandths(950)

\* How often a note occurs among the validation notes of the result.
Occurs(note) ==
    Cardinality({i \in DOMAIN sig.validation_notes : sig.validation_notes[i] = note})

\* The override rules a-e of the claim against the raw decision, with the note
\* each records.
Overrides ==
    LET in == sig.in
        raw == sig.raw_signal
    IN  <<[matches |-> in.regime = "BEAR" /\ raw = "BUY"
                          /\ (sig.confidence < Thousandths(600) \/ in.macroConf > 800),
           note |-> "bear low confidence"],
          [matches |-> sig.risk_score > Thousandths(800) /\ raw # "HOLD",
           note |-> "risk too high"],
          [matches |-> in.regime = "BULL" /\ raw = "SELL" /\ in.macroConf > 850,
           note |-> "contrarian to strong bull"],
          [matches |-> in.regime = "BEAR" /\ raw = "BUY" /\ in.macroConf > 850,
           note |-> "contrarian to strong bear"],
          [matches |-> sig.confidence < Thousandths(400) /\ raw # "HOLD",
           note |-> "confidence too low"]>>

Matched == {i \in 1..5 : Overrides[i].matches}

\* C19: every override rule that matches the raw decision records exactly one
\* note and the others none; the final signal is HOLD if at least one rule
\* matched and the raw signal otherwise; 'no overrides applied' is recorded iff
\* no rule matched.
C19_AllOverridesRecorded ==
    Generated =>
        /\ \A i \in 1..5 :
              Occurs(Overrides[i].note) = IF i \in Matched THEN 1 ELSE 0
        /\ Occurs("no overrides applied") = IF Matched = {} THEN 1 ELSE 0
        /\ Len(sig.validation_notes) = IF Matched = {} THEN 1 ELSE Cardinality(Matched)
        /\ sig.signal = IF Matched = {} THEN sig.raw_signal ELSE "HOLD"
        /\ ~(sig.raw_signal = "BUY" /\ sig.signal = "SELL")
        /\ ~(sig.raw_signal = "SELL" /\ sig.signal = "BUY")

\* A contrarian BUY in a BEAR regime of confidence above 0.85: rules a and d
\* both match and both notes are recorded.
C19_Witness ==
    /\ Generated
    /\ sig.raw_signal = "BUY"
    /\ sig.in.regime = "BEAR"
    /\ Matched = {1, 4}
    /\ sig.validation_notes = <<"bear low confidence", "contrarian to strong bear">>
    /\ sig.signal = "HOLD"

\* The risk factors of the claim, each in units of 1/2000: 1 - sentConf,
\* 1 - regimeConf, the divergence risk, the regime base risk and, when a
\* volatility is supplied, min(1, volatility/0.5).
RiskFactors(in) ==
    <<2 * (1000 - in.sentConf),
      2 * (1000 - in.macroConf),
      IF in.regime = "BULL" /\ in.score < 0 THEN 2 * Abs(in.score)
      ELSE IF in.regime = "BEAR" /\ in.score > 0 THEN 2 * Abs(in.score)
      ELSE IF in.regime = "TRANSITION" THEN Abs(in.score)
      ELSE 0,
      IF in.regime = "BEAR" THEN 1400
      ELSE IF in.regime = "TRANSITION" THEN 1000 ELSE 600>>
    \o (IF Len(in.volatility) = 0 THEN <<>>
        ELSE <<2 * Min(1000, 2 * in.volatility[1])>>)

RECURSIVE SumOf(_)
SumOf(s) == IF s = <<>> THEN 0 ELSE s[1] + SumOf(Tail(s))

\* C20: the risk score is the arithmetic mean of the available factors, four
\* without a volatility and five with one, and lies in [0,1].
C20_RiskIsMeanOfFactors ==
    Generated =>
        LET factors == RiskFactors(sig.in) IN
        /\ Len(factors) = IF Len(sig.in.volatility) = 0 THEN 4 ELSE 5
        /\ \A i \in DOMAIN factors : factors[i] >= 0 /\ factors[i] <= 2000
        /\ sig.risk_score * 2000 * Len(factors) = Q * SumOf(factors)
        /\ sig.risk_score >= 0
        /\ sig.risk_score <= Q

\* Five factors, the volatility one capped at 1: (1 + 1 + 1 + 0.7 + 1)/5 = 0.94.
C20_Witness ==
    /\ Generated
    /\ sig.in.volatility = <<1000>>
    /\ sig.in.regime = "BEAR"
    /\ sig.in.score = 1000
    /\ sig.in.sentConf = 0
    /\ sig.in.macroConf = 0
    /\ sig.risk_score = Thousandths(940)

(***************************************************************************)
(* Position sizing.                                                        *)
(***************************************************************************)
\* The multiplier m of the claim, in tenths.
ClaimedMultiplier(signal, regime) ==
    CASE regime = "BULL" /\ signal = "BUY" -> 12
      [] regime = "BEAR" /\ signal = "SELL" -> 11
      [] regime = "TRANSITION" -> 7
      [] OTHER -> 6

\* ((confidence*10 + (1-risk)*5)/2) * m as the fraction SizeNum/SizeDen.
SizeNum == (10 * sig.confidence + 5 * (Q - sig.risk_score))
              * ClaimedMultiplier(sig.raw_signal, sig.in.regime)
SizeDen == 20 * Q

\* k is SizeNum/SizeDen rounded to a nearest integer.
IsNearest(k) == 2 * Abs(k * SizeDen - SizeNum) <= SizeDen

\* C21: the position size is 0 when the signal given to _calculate_position_size
\* is HOLD, and otherwise the value ((confidence*10 + (1-risk)*5)/2) * m rounded
\* to a nearest integer and clamped to 1..10.
C21_PositionSizeFormula ==
    Generated =>
        IF sig.raw_signal = "HOLD" THEN sig.position_size = 0
        ELSE /\ sig.position_size \in 1..10
             /\ \E k \in 0..13 :
                   /\ IsNearest(k)
                   /\ sig.position_size = Max(1, Min(10, k))

\* A SELL in a BEAR regime, multiplier 1.1: confidence 0.95, risk 0.175,
\* ((9.5 + 4.125)/2) * 1.1 = 7.49, size 7 (a multiplier of 1.0 gives 6.81).
C21_Witness ==
    /\ Generated
    /\ sig.raw_signal = "SELL"
    /\ sig.in.regime = "BEAR"
    /\ sig.in.score = -1000
    /\ sig.in.sentConf = 1000
    /\ sig.in.macroConf = 1000
    /\ sig.in.volatility = <<>>
    /\ sig.position_size = 7

(***************************************************************************)
(* Inputs outside the declared ranges.                                     *)
(***************************************************************************)
\* C22: generate_signal on a score outside [-1,1], a confidence outside [0,1]
\* or a regime other than BULL, BEAR, TRANSITION raises and returns no signal.
C22_InvalidInputRejected ==
    (Generated /\ ~ValidInput(sig.in)) => sig.outcome = "raised"

(***************************************************************************)
(* The state of a generator across calls.                                  *)
(***************************************************************************)
\* C23: a call of generate_signal leaves the state of the generator as it was
\* before the call.
C23_CallLeavesGeneratorUnchanged ==
    [][sig'.op = "signal" => signal_history' = signal_history]_vars

(***************************************************************************)
(* The contrarian SELL.                                                    *)
(***************************************************************************)
\* The case of the claim: a BULL regime of confidence at most 0.85, a score
\* below -0.4, a sentiment confidence above 0.75.
ContrarianSellCase ==
    /\ Generated
    /\ sig.in.regime = "BULL"
    /\ sig.in.score < -400
    /\ sig.in.sentConf > 750
    /\ sig.in.macroConf <= 850

\* C24 as stated: in that case the result is a final SELL whose confidence is
\* exactly 0.7 * sentConf, with the note 'no overrides applied'.
C24_ExactContrarianConfidence ==
    ContrarianSellCase =>
        /\ sig.signal = "SELL"
        /\ 10 * sig.rounded_confidence = 7 * sig.in.sentConf
        /\ sig.validation_notes = <<"no overrides applied">>

\* C24, amended: in that case the result is a final SELL whose confidence is
\* 0.7 * sentConf rounded to three decimals, with the note 'no overrides
\* applied'.
C24_RoundedContrarianConfidence ==
    ContrarianSellCase =>
        /\ sig.signal = "SELL"
        /\ 2 * Abs(10 * sig.rounded_confidence - 7 * sig.in.sentConf) <= 10
        /\ sig.validation_notes = <<"no overrides applied">>

\* A sentiment confidence of 0.751: 0.7 * 0.751 = 0.5257 is returned as 0.526.
C24_Witness ==
    /\ ContrarianSellCase
    /\ sig.in.sentConf = 751
    /\ sig.in.volatility = <<1000>>
    /\ sig.raw_signal = "SELL"
    /\ sig.signal = "SELL"
    /\ sig.rounded_confidence = 526

(***************************************************************************)
(* Guardrails on the final signal.                                         *)
(***************************************************************************)
\* C25: in a BEAR regime, when the confidence of the raw decision is below 0.6
\* or the regime confidence is above 0.8, the returned signal is not BUY.
C25_NoWeakBuyInBear ==
    (/\ Generated
     /\ sig.in.regime = "BEAR"
     /\ (sig.confidence < Thousandths(600) \/ sig.in.macroConf > 800))
        => sig.signal \in {"HOLD", "SELL"}

\* A contrarian BUY of confidence 0.7 * 0.8 = 0.56 in a BEAR regime of
\* confidence 0.5: downgraded to HOLD.
C25_Witness ==
    /\ Generated
    /\ sig.in.regime = "BEAR"
    /\ sig.in.sentConf = 800
    /\ sig.in.macroConf = 500
    /\ sig.raw_signal = "BUY"
    /\ sig.confidence = Thousandths(560)
    /\ sig.signal = "HOLD"

(***************************************************************************)
(* The alerts of analyze_company.                                          *)
(***************************************************************************)
Analyzed == report.op = "analyze_company"

\* The alerts the rules of check_for_alerts prescribe for the sentiment, the
\* regime and the recommendation of the report, given the regime remembered
\* before the call.
PrescribedAlerts(rep, prev) ==
    ExtremeSentiment(rep.ticker, rep.sentiment_analysis.sentiment_score)
    \o SentimentDivergence(rep.ticker, rep.macro_regime.regime,
                           rep.sentiment_analysis.overall_label)
    \o RegimeChange(rep.macro_regime.regime, prev)
    \o HighConfidence(rep.ticker, rep.sentiment_analysis.confidence)
    \o TradingSignalAlert(rep.ticker, rep.recommendation.action)

\* C26: the alerts analyze_company returns are those the rules prescribe for
\* the sentiment, regime and recommendation of its report, and an analysis
\* that finds no remembered regime makes the report's regime the baseline.
C26_AlertsFollowReport ==
    Analyzed =>
        /\ report.alerts = PrescribedAlerts(report.report, report.prev_before)
        /\ report.prev_before = None
              => previous_regime = report.report.macro_regime.regime

(***************************************************************************)
(* The recommendation and the current indicators.                          *)
(***************************************************************************)
\* C27: a recommendation get_trading_recommendation returns is the one for the
\* regime of the detector's current indicators at the time of the call.
C27_RecommendationIsCurrent ==
    (macro.op = "get_trading_recommendation" /\ macro.outcome = "returned") =>
        /\ Len(macro.current_indicators) = 1
        /\ ~ClassifyRaises(macro.current_indicators[1])
        /\ LET res == ClassifyResult(macro.current_indicators[1], macro.now)
               rec == Recommendation(res.regime, res.confidence)
           IN  /\ macro.ret[1].regime = res.regime
               /\ macro.ret[1].confidence = res.confidence
               /\ macro.ret[1].recommendation = rec[1]
               /\ macro.ret[1].risk_level = rec[2]

(***************************************************************************)
(* Bounds on the risk score, the confidence of a classification and the    *)
(* position size.                                                          *)
(***************************************************************************)
\* C28: whenever the signal of the cascade is BUY or SELL the risk score is at
\* most 0.8, and the note of override rule (b) is never recorded.
C28_RiskRuleNeverFires ==
    (Generated /\ sig.raw_signal \in {"BUY", "SELL"}) =>
        /\ sig.risk_score <= Thousandths(800)
        /\ Occurs("risk too high") = 0

\* The riskiest BUY of the grid: a contrarian BUY in a BEAR regime of confidence
\* 0, sentiment confidence 0.751, score 1, volatility capped at 1:
\* (0.249 + 1 + 1 + 1 + 0.7)/5 = 0.7898.
C28_Witness ==
    /\ Generated
    /\ sig.raw_signal = "BUY"
    /\ sig.in.regime = "BEAR"
    /\ sig.in.score = 1000
    /\ sig.in.sentConf = 751
    /\ sig.in.macroConf = 0
    /\ sig.in.volatility = <<1000>>
    /\ 10 * sig.risk_score = Thousandths(7898)
    /\ sig.signal = "HOLD"

\* C29: a classification of a complete indicator set has confidence at least
\* 0.65, a TRANSITION one above 0.7, and counts at least two votes.
C29_ConfidenceFloor ==
    (Classified /\ Complete(macro.ret[1].indicators)) =>
        /\ macro.ret[1].confidence >= 650
        /\ macro.ret[1].regime = "TRANSITION" => macro.ret[1].confidence > 700
        /\ macro.ret[1].bullish + macro.ret[1].bearish >= 2

\* The least confident classification of a complete set: 3 bullish votes
\* against 5 bearish ones, TRANSITION with confidence 1 - 2*|0.5 - 0.375|.
C29_Witness ==
    /\ Classified
    /\ Complete(macro.ret[1].indicators)
    /\ macro.ret[1].bullish = 3
    /\ macro.ret[1].bearish = 5
    /\ macro.ret[1].regime = "TRANSITION"
    /\ macro.ret[1].confidence = 750

\* C30: the position size generate_signal returns is at most 9, and the
\* confidence of a BUY or SELL of the cascade at most 0.95.
C30_PositionSizeBelowTen ==
    Generated =>
        /\ sig.position_size <= 9
        /\ sig.raw_signal \in {"BUY", "SELL"}
              => sig.confidence <= Thousandths(950)

\* The largest size: a strong BUY in a BULL regime with both confidences 1 and
\* a volatility of 0: ((9.5 + 4.7)/2) * 1.2 = 8.52, size 9.
C30_Witness ==
    /\ Generated
    /\ sig.raw_signal = "BUY"
    /\ sig.in.regime = "BULL"
    /\ sig.in.sentConf = 1000
    /\ sig.in.macroConf = 1000
    /\ sig.in.volatility = <<0>>
    /\ sig.confidence = Thousandths(950)
    /\ sig.position_size = 9

====
